---- MODULE Spec2Model ----
(***************************************************************************)
(* Seat inventory, booking lifecycle and check-in of swaptfs-backend.      *)
(*                                                                         *)
(* The application is one uvicorn process (src/main.py:180) whose route    *)
(* handlers are all `async def`: a handler runs on the single event loop   *)
(* and is suspended only at an `await`.  Every database call is a plain    *)
(* synchronous sqlite3 call that commits at once (src/database.py:114).    *)
(* A handler is therefore modelled as the sequence of its await-free       *)
(* segments, each segment one atomic step.                                 *)
(*                                                                         *)
(* The departure of a flight is stored as the text the staff request       *)
(* carried: `departure` is the instant that text denotes when read as UTC, *)
(* `aware` tells whether the text carries a UTC offset.                    *)
(*                                                                         *)
(* Time is counted in minutes.  Optional values (Python None) are sets:    *)
(* {} is None and {v} is the value v; an absent string is "" or << >>.     *)
(***************************************************************************)
EXTENDS Integers, Sequences, FiniteSets, TLC

VARIABLES
    flights,    \* table flights: id -> [seats, booked, departure, aware]
    bookings,   \* table bookings: a set of rows
    cache,      \* images/cache/printed: <<flightId, confirmation>> -> bytes
    now,        \* utc_now(), in minutes
    tasks,      \* create_booking requests in flight (SpecConc)
    gen         \* one call of generate_confirmation_number (SpecGen)

vars == <<flights, bookings, cache, now, tasks, gen>>

----------------------------------------------------------------------------
(* Bounds of the model *)

MaxSeats == 2
NumCodes == 2
MaxBookings == 2
MaxDepth == 3
VerifyRange == 3
NumTasks == 2
MaxHoles == 1
HoleStride == 45
MaxOverflow == 2

(* Program constants *)

DepartedPadMinutes == 45
WindowHours == 24
EarlyBirdWindowHours == 36
PositionsPerGroup == 60

Groups == <<"A", "B", "C">>

UserIds   == {"u1", "u2"}
FlightIds == {"SW1", "SW2"}

\* users.hasEarlyBird = 1 for these users
EarlyBirds == {"u1"}

\* confirmation codes: a small stand-in for the 36^6 strings of length 6
CodeNames == <<"AAAAAA", "B2B2B2", "C3C3C3", "D4D4D4", "E5E5E5", "F6F6F6">>
CodeSpace == {CodeNames[i] : i \in 1..NumCodes}

\* the scheduled departure every flight is created with, and the instants
\* the clock visits around it
Departure == 2000
Instants  == {0, Departure + DepartedPadMinutes,
              Departure + DepartedPadMinutes + 1}

None == {}
Some(x) == {x}
Val(o) == CHOOSE x \in o : TRUE

Max2(a, b) == IF a >= b THEN a ELSE b

----------------------------------------------------------------------------
(* src/core/time.py *)

\* a departure as a request body carries it: absent, text that is no
\* timestamp, or an ISO-8601 timestamp
BodyDepartures ==
    {[kind |-> "absent", at |-> 0], [kind |-> "garbage", at |-> 0],
     [kind |-> "iso", at |-> Departure]}

parse_datetime(value) ==
    IF value.kind = "iso" THEN Some(value.at) ELSE None

\* `dep and dep + timedelta(minutes=45) < utc_now()`
departed(dep, t) ==
    dep # None /\ Val(dep) + DepartedPadMinutes < t

----------------------------------------------------------------------------
(* src/core/crud.py: Flights *)

Flights_get_by_id(fl, flight_id) ==
    IF flight_id \in DOMAIN fl THEN Some(fl[flight_id]) ELSE None

\* a variant whose UPDATE is lost
change_bookings_lost(fl, flight_id, count, operation) == fl

change_bookings(fl, flight_id, count, operation) ==
    IF flight_id \notin DOMAIN fl THEN fl
    ELSE [fl EXCEPT ![flight_id].booked =
             IF operation = "add" THEN @ + count ELSE @ - count]

\* a variant that detects a violation and repairs nothing
verify_row_norepair(seats, booked) ==
    [corrected |-> booked < 0 \/ seats < 0 \/ booked > seats,
     seats |-> seats, booked |-> booked]

\* a variant that repairs by clamping booked into 0..seats
verify_row_clamp(seats, booked) ==
    IF booked < 0 \/ seats < 0 \/ booked > seats
    THEN [corrected |-> TRUE,
          seats |-> Max2(seats, 0),
          booked |-> IF booked < 0 \/ seats < 0 THEN 0 ELSE seats]
    ELSE [corrected |-> FALSE, seats |-> seats, booked |-> booked]

\* the decision and the repair of verify_seats on one (seats, booked) pair
verify_row(seats, booked) ==
    IF booked < 0 \/ seats < 0 \/ booked > seats
    THEN [corrected |-> TRUE,
          seats |-> Max2(Max2(seats, booked), 0), booked |-> 0]
    ELSE [corrected |-> FALSE, seats |-> seats, booked |-> booked]

\* verify_seats on the table; ok = FALSE is the ValueError of a missing flight
verify_seats(fl, flight_id) ==
    IF flight_id \notin DOMAIN fl THEN [ok |-> FALSE, flights |-> fl]
    ELSE LET r == verify_row(fl[flight_id].seats, fl[flight_id].booked) IN
         [ok |-> TRUE,
          flights |-> [fl EXCEPT ![flight_id].seats = r.seats,
                                 ![flight_id].booked = r.booked]]

----------------------------------------------------------------------------
(* src/core/crud.py: Bookings *)

Bookings_get_by_confirmation(bk, confirmation) ==
    {b \in bk : b.confirmationNumber = confirmation}

\* a variant of the table without the PRIMARY KEY
Bookings_add_nopk(bk, fl, row) ==
    IF row.flightId \notin DOMAIN fl \/ row.userId \notin UserIds
    THEN [ok |-> FALSE, bookings |-> bk]
    ELSE [ok |-> TRUE, bookings |-> bk \cup {row}]

\* INSERT INTO bookings: the PRIMARY KEY on confirmationNumber and the two
\* FOREIGN KEYs (PRAGMA foreign_keys = ON) make the insert raise
Bookings_add(bk, fl, row) ==
    IF \/ \E b \in bk : b.confirmationNumber = row.confirmationNumber
       \/ row.flightId \notin DOMAIN fl
       \/ row.userId \notin UserIds
    THEN [ok |-> FALSE, bookings |-> bk]
    ELSE [ok |-> TRUE, bookings |-> bk \cup {row}]

Bookings_delete(bk, confirmation) ==
    {b \in bk : b.confirmationNumber # confirmation}

----------------------------------------------------------------------------
(* src/core/flights/booking_utils.py: assign_boarding_position *)

DigitChars == <<"0", "1", "2", "3", "4", "5", "6", "7", "8", "9">>
IsDigit(c) == \E d \in 1..10 : DigitChars[d] = c
DigitVal(c) == (CHOOSE d \in 1..10 : DigitChars[d] = c) - 1

\* str(n) of a natural number, as a sequence of characters
RECURSIVE IntToStr(_)
IntToStr(n) ==
    IF n < 10 THEN <<DigitChars[n + 1]>>
    ELSE IntToStr(n \div 10) \o <<DigitChars[(n % 10) + 1]>>

\* int(s) of a sequence of digits
RECURSIVE StrToInt(_)
StrToInt(s) ==
    IF Len(s) = 0 THEN 0
    ELSE 10 * StrToInt(SubSeq(s, 1, Len(s) - 1)) + DigitVal(s[Len(s)])

\* re.search(r"\d+", s): the first maximal run of digits, as an int
first_digits(s) ==
    LET starts == {i \in 1..Len(s) : IsDigit(s[i])} IN
    IF starts = {} THEN None
    ELSE LET i0 == CHOOSE i \in starts : \A j \in starts : i <= j
             ends == {j \in i0..Len(s) : \A k \in i0..j : IsDigit(s[k])}
             j0 == CHOOSE j \in ends : \A k \in ends : k <= j
         IN Some(StrToInt(SubSeq(s, i0, j0)))

\* f"{group}{pos}"
format_position(group, pos) == <<group>> \o IntToStr(pos)

\* a variant that reads the positions of the other flights' bookings
positions_taken_elsewhere(bk, flight_id) ==
    {[group |-> b.boardingGroup, pos |-> Val(first_digits(b.boardingPosition))] :
        b \in {x \in bk : /\ x.flightId # flight_id
                          /\ x.boardingGroup # ""
                          /\ first_digits(x.boardingPosition) # None}}

positions_taken(bk, flight_id) ==
    {[group |-> b.boardingGroup, pos |-> Val(first_digits(b.boardingPosition))] :
        b \in {x \in bk : /\ x.flightId = flight_id
                          /\ x.boardingGroup # ""
                          /\ first_digits(x.boardingPosition) # None}}

\* a variant whose inner loop is range(1, 60)
RECURSIVE first_free_short(_, _, _)
first_free_short(taken, g, pos) ==
    IF g > Len(Groups) THEN format_position("C", 60)
    ELSE IF pos > PositionsPerGroup - 1 THEN first_free_short(taken, g + 1, 1)
    ELSE IF [group |-> Groups[g], pos |-> pos] \notin taken
         THEN format_position(Groups[g], pos)
    ELSE first_free_short(taken, g, pos + 1)

\* the two nested loops over groups and range(1, 61), and the fallback
RECURSIVE first_free(_, _, _)
first_free(taken, g, pos) ==
    IF g > Len(Groups) THEN format_position("C", 60)
    ELSE IF pos > PositionsPerGroup THEN first_free(taken, g + 1, 1)
    ELSE IF [group |-> Groups[g], pos |-> pos] \notin taken
         THEN format_position(Groups[g], pos)
    ELSE first_free(taken, g, pos + 1)

assign_boarding_position(bk, flight_id) ==
    first_free(positions_taken(bk, flight_id), 1, 1)

----------------------------------------------------------------------------
(* src/core/flights/boarding_pass.py: generate_boarding_pass_image *)

\* the image is a function of what the renderer reads from the two rows
render(booking, flight) ==
    [confirmationNumber |-> booking.confirmationNumber,
     flightId |-> booking.flightId,
     boardingPosition |-> booking.boardingPosition,
     checkedInAt |-> booking.checkedInAt,
     departure |-> flight.departure]

\* a variant that never looks at the cache
generate_image_uncached(fl, bk, ca, confirmation, cache_only, render_ok) ==
    LET found == Bookings_get_by_confirmation(bk, confirmation)
        fail == [ok |-> FALSE, cache |-> ca, bytes |-> None]
    IN
    IF found = {} THEN fail
    ELSE LET booking == Val(found)
             key == <<booking.flightId, confirmation>>
         IN
         IF booking.flightId \notin DOMAIN fl THEN fail
         ELSE IF ~render_ok THEN fail
         ELSE LET img == render(booking, fl[booking.flightId]) IN
              [ok |-> TRUE,
               cache |-> [k \in DOMAIN ca \cup {key} |->
                             IF k = key THEN img ELSE ca[k]],
               bytes |-> Some(img)]

\* a variant that draws the image again when the rows no longer show what
\* the cached image shows
generate_image_refreshing(fl, bk, ca, confirmation, cache_only, render_ok) ==
    LET found == Bookings_get_by_confirmation(bk, confirmation)
        fail == [ok |-> FALSE, cache |-> ca, bytes |-> None]
    IN
    IF found = {} THEN fail
    ELSE LET booking == Val(found)
             key == <<booking.flightId, confirmation>>
         IN
         IF booking.flightId \notin DOMAIN fl THEN fail
         ELSE LET img == render(booking, fl[booking.flightId]) IN
              IF key \in DOMAIN ca /\ ca[key] = img
              THEN [ok |-> TRUE, cache |-> ca, bytes |-> Some(ca[key])]
              ELSE IF ~render_ok THEN fail
              ELSE [ok |-> TRUE,
                    cache |-> [k \in DOMAIN ca \cup {key} |->
                                  IF k = key THEN img ELSE ca[k]],
                    bytes |-> Some(img)]

\* ok = FALSE: an exception leaves the function.  render_ok = FALSE stands
\* for a failure while drawing (fonts, airport lookup).  The write of the
\* cache file is taken to succeed.
generate_boarding_pass_image(fl, bk, ca, confirmation, cache_only, render_ok) ==
    LET found == Bookings_get_by_confirmation(bk, confirmation)
        fail == [ok |-> FALSE, cache |-> ca, bytes |-> None]
    IN
    IF found = {} THEN fail
    ELSE LET booking == Val(found)
             key == <<booking.flightId, confirmation>>
         IN
         IF booking.flightId \notin DOMAIN fl THEN fail
         ELSE IF key \in DOMAIN ca
              THEN [ok |-> TRUE, cache |-> ca, bytes |-> Some(ca[key])]
         ELSE IF ~render_ok THEN fail
         ELSE LET img == render(booking, fl[booking.flightId]) IN
              [ok |-> TRUE,
               cache |-> [k \in DOMAIN ca \cup {key} |->
                             IF k = key THEN img ELSE ca[k]],
               bytes |-> Some(img)]

----------------------------------------------------------------------------
(* Responses *)

FlightIdRequired   == "Flight ID is required"
FlightDeparted     == "Flight already departed"
FlightNotFound     == "Flight not found"
CapacityExceeded   == "No seats available"
DuplicateBooking   == "User already has a booking for this flight"
DatabaseError      == "Database error"
Booked             == "Flight booked successfully"
BookingIdRequired  == "Booking ID required"
NotAuthorized      == "Not authorized or booking not found"
CanceledNoFlight   == "Booking canceled (flight missing)"
Canceled           == "Booking canceled successfully"
ConfirmationRequired == "Confirmation number is required"
ConfirmationNotFound == "Confirmation number not found"
FlightDataNotFound == "Flight data not found"
UserNotFound       == "User not found"
TooEarly           == "Check-in is only allowed within the window"
RenderFailed       == "Failed to generate boarding pass image"
InternalServerError == "Internal Server Error"

Response(op, user, flight, conf, status, detail) ==
    [op |-> op, user |-> user, flight |-> flight, conf |-> conf,
     status |-> status, detail |-> detail, content |-> None]

----------------------------------------------------------------------------
(* src/routes/booking.py: create_booking *)

\* a variant with the comparison `flight.booked > flight.seats`
no_seats_strict(flight) == flight.booked > flight.seats

\* `flight.booked >= flight.seats`
no_seats(flight) == flight.booked >= flight.seats

\* a variant of the scan that compares the user only against the rows of
\* other flights
existing_elsewhere(bk, user, flight_id) ==
    \E b \in bk : b.userId = user /\ b.flightId # flight_id

\* the duplicate scan over Bookings.get_all()
existing(bk, user, flight_id) ==
    \E b \in bk : b.userId = user /\ b.flightId = flight_id

\* the rows of the two tables and the response after the handler's
\* database segment (lines 60-118); `drawn` is what _generate_confirmation
\* returns
create_booking(fl, bk, user, flight_id, dep, drawn, t) ==
    LET fail(status, detail, conf) ==
            [flights |-> fl, bookings |-> bk,
             resp |-> Response("create_booking", user, flight_id, conf,
                               status, detail)]
        flight == Flights_get_by_id(fl, flight_id)
    IN
    IF flight_id = "" THEN fail(400, FlightIdRequired, "")
    ELSE IF departed(parse_datetime(dep), t) THEN fail(400, FlightDeparted, "")
    ELSE IF flight = None THEN fail(404, FlightNotFound, "")
    ELSE IF no_seats(Val(flight)) THEN fail(400, CapacityExceeded, "")
    ELSE IF existing(bk, user, flight_id)
         THEN fail(400, DuplicateBooking, "")
    ELSE IF Val(flight).seats <= 0 THEN fail(500, DatabaseError, drawn)
    ELSE LET row == [userId |-> user, flightId |-> flight_id,
                     confirmationNumber |-> drawn,
                     boardingGroup |-> "", boardingPosition |-> << >>,
                     checkedInAt |-> None]
             added == Bookings_add(bk, fl, row)
         IN
         IF ~added.ok THEN fail(500, DatabaseError, drawn)
         ELSE LET v == verify_seats(change_bookings(fl, flight_id, 1, "add"),
                                    flight_id)
              IN [flights |-> v.flights, bookings |-> added.bookings,
                  resp |-> Response("create_booking", user, flight_id, drawn,
                                    200, Booked)]

----------------------------------------------------------------------------
(* src/routes/booking.py: cancel_booking *)

\* a variant that leaves the cached file in place
remove_cached_keep(ca, flight_id, confirmation) == ca

\* os.remove of the one cached file of the booking, when it exists
remove_cached(ca, flight_id, confirmation) ==
    [k \in DOMAIN ca \ {<<flight_id, confirmation>>} |-> ca[k]]

\* a variant that only checks that the booking exists
not_owner_anyone(found, user) == found = {}

\* `not booking or booking.userId != session.user_id`
not_owner(found, user) ==
    found = {} \/ Val(found).userId # user

cancel_booking(fl, bk, ca, user, confirmation, t) ==
    LET resp(status, detail, flight_id) ==
            Response("cancel_booking", user, flight_id, confirmation,
                     status, detail)
        same(status, detail, flight_id) ==
            [flights |-> fl, bookings |-> bk, cache |-> ca,
             resp |-> resp(status, detail, flight_id)]
        found == Bookings_get_by_confirmation(bk, confirmation)
    IN
    IF confirmation = "" THEN same(400, BookingIdRequired, "")
    ELSE IF not_owner(found, user) THEN same(403, NotAuthorized, "")
    ELSE LET booking == Val(found)
             flight == Flights_get_by_id(fl, booking.flightId)
         IN
         IF flight = None
         THEN [flights |-> fl,
               bookings |-> Bookings_delete(bk, confirmation),
               cache |-> ca,
               resp |-> resp(200, CanceledNoFlight, booking.flightId)]
         ELSE IF departed(Some(Val(flight).departure), t)
              THEN same(400, FlightDeparted, booking.flightId)
         ELSE LET v == verify_seats(
                          change_bookings(fl, booking.flightId, 1, "sub"),
                          booking.flightId)
              IN [flights |-> v.flights,
                  bookings |-> Bookings_delete(bk, confirmation),
                  cache |-> remove_cached(ca, booking.flightId,
                                          booking.confirmationNumber),
                  resp |-> resp(200, Canceled, booking.flightId)]

----------------------------------------------------------------------------
(* src/routes/checkin.py: start_checkin, staff_checkin *)

DEVMODE == FALSE

checkin_window_hours(user) ==
    IF user \in EarlyBirds THEN EarlyBirdWindowHours ELSE WindowHours

\* `departure_time - now` with departure_time = datetime.fromisoformat of
\* the stored text and now an aware datetime: a TypeError when the text
\* carries no offset, which no handler catches
naive_departure(flight) == ~DEVMODE /\ ~flight.aware

\* `time_difference > checkin_window_hours`, time_difference in hours
too_early(departure, t, user) ==
    ~DEVMODE /\ departure - t > checkin_window_hours(user) * 60

\* a variant that writes the group and leaves the position empty
set_position_group_only(bk, confirmation, group, position) ==
    {IF b.confirmationNumber = confirmation
     THEN [b EXCEPT !.boardingGroup = group]
     ELSE b : b \in bk}

\* UPDATE bookings SET boardingGroup = ?, boardingPosition = ? WHERE ...
set_position(bk, confirmation, group, position) ==
    {IF b.confirmationNumber = confirmation
     THEN [b EXCEPT !.boardingGroup = group, !.boardingPosition = position]
     ELSE b : b \in bk}

\* UPDATE bookings SET checkedInAt = ? WHERE confirmationNumber = ?
set_checked_in(bk, confirmation, t) ==
    {IF b.confirmationNumber = confirmation
     THEN [b EXCEPT !.checkedInAt = Some(t)]
     ELSE b : b \in bk}

\* the row of a confirmation code in a table
RowOf(bk, confirmation) ==
    CHOOSE b \in bk : b.confirmationNumber = confirmation

\* what a successful check-in answers: start_checkin the PNG bytes (line
\* 147), staff_checkin the group and the position as JSON (line 327)
checkin_content(op, bytes, booking) ==
    IF op = "start_checkin" THEN bytes
    ELSE Some([boardingGroup |-> booking.boardingGroup,
               boardingPosition |-> booking.boardingPosition])

\* the body both check-in handlers share: `op` and `caller` name the
\* handler and its session user, `window_user` is the user whose Early-Bird
\* flag sets the window
checkin(op, fl, bk, ca, caller, window_user, confirmation, render_ok, t) ==
    LET resp(status, detail, flight_id) ==
            Response(op, caller, flight_id, confirmation, status, detail)
        same(status, detail, flight_id) ==
            [bookings |-> bk, cache |-> ca,
             resp |-> resp(status, detail, flight_id)]
        found == Bookings_get_by_confirmation(bk, confirmation)
    IN
    IF confirmation = "" THEN same(400, ConfirmationRequired, "")
    ELSE IF found = {} THEN same(404, ConfirmationNotFound, "")
    ELSE LET booking == Val(found)
             flight_id == booking.flightId
         IN
         IF flight_id \notin DOMAIN fl
         THEN same(500, FlightDataNotFound, flight_id)
         ELSE IF window_user \notin UserIds
              THEN same(404, UserNotFound, flight_id)
         ELSE IF naive_departure(fl[flight_id])
              THEN same(500, InternalServerError, flight_id)
         ELSE IF too_early(fl[flight_id].departure, t, window_user)
              THEN same(400, TooEarly, flight_id)
         ELSE LET position == assign_boarding_position(bk, flight_id)
                  bk1 == IF booking.boardingPosition = << >>
                         THEN set_position(bk, confirmation,
                                           Head(position), position)
                         ELSE bk
                  bk2 == set_checked_in(bk1, confirmation, t)
                  img == generate_boarding_pass_image(
                             fl, bk2, ca, confirmation, FALSE, render_ok)
              IN IF ~img.ok
                 THEN [bookings |-> bk2, cache |-> img.cache,
                       resp |-> resp(500, RenderFailed, flight_id)]
                 ELSE [bookings |-> bk2, cache |-> img.cache,
                       resp |-> [resp(200, "", flight_id)
                                    EXCEPT !.content =
                                        checkin_content(op, img.bytes,
                                            RowOf(bk2, confirmation))]]

start_checkin(fl, bk, ca, user, confirmation, render_ok, t) ==
    checkin("start_checkin", fl, bk, ca, user, user, confirmation,
            render_ok, t)

staff_checkin(fl, bk, ca, staff, target_user, confirmation, render_ok, t) ==
    checkin("staff_checkin", fl, bk, ca, staff, target_user, confirmation,
            render_ok, t)

\* users.isFlightStaff / isStaff / isAdmin / isBot (is_flight_staff)
FlightStaff == {"u2"}

BoardingPassNotFound == "Boarding pass not found"
NotCheckedIn         == "Not checked in yet"

\* GET /checkin/printed/{confirmationCode}: the owner of a checked-in
\* booking asks for the image with cache_only = True.  An unknown code
\* raises AttributeError on `booking.userId` before any try; whatever the
\* generation raises is answered with 404
get_printed_boarding_pass(fl, bk, ca, user, confirmation, render_ok) ==
    LET resp(status, detail) ==
            Response("get_printed_boarding_pass", user, "", confirmation,
                     status, detail)
        same(status, detail) == [cache |-> ca, resp |-> resp(status, detail)]
        found == Bookings_get_by_confirmation(bk, confirmation)
    IN
    IF found = {} THEN same(500, InternalServerError)
    ELSE IF Val(found).userId # user THEN same(404, BoardingPassNotFound)
    ELSE IF Val(found).checkedInAt = None THEN same(404, NotCheckedIn)
    ELSE LET img == generate_boarding_pass_image(fl, bk, ca, confirmation,
                                                 TRUE, render_ok)
         IN IF ~img.ok THEN same(404, BoardingPassNotFound)
            ELSE [cache |-> img.cache,
                  resp |-> [resp(200, "") EXCEPT !.content = img.bytes]]

----------------------------------------------------------------------------
(* src/routes/flights.py: create_flight, update_flight *)

\* POST /flights/: every required field must be truthy, so seats = 0 is
\* refused; the flight starts with booked = 0.  The INSERT of Flights.add is
\* taken to succeed: the flights table has the column robloxPrivateServerLink
create_flight(fl, flight_id, seats, departure, aware) ==
    LET same(status, detail) ==
            [flights |-> fl,
             resp |-> Response("create_flight", "", flight_id, "",
                               status, detail)]
    IN
    IF seats = 0 THEN same(400, "Missing required fields")
    ELSE IF flight_id \in DOMAIN fl THEN same(409, "Flight ID already exists")
    ELSE [flights |-> [f \in DOMAIN fl \cup {flight_id} |->
                          IF f = flight_id
                          THEN [seats |-> seats, booked |-> 0,
                                departure |-> departure,
                                aware |-> aware]
                          ELSE fl[f]],
          resp |-> Response("create_flight", "", flight_id, "", 200,
                            "Flight added successfully")]

\* the seats, the departure and the response after PUT /flights/{id};
\* both_keys: the body carries "robloxPrivateServerlink" (required_fields)
\* and "robloxPrivateServerLink" (update_data)
update_flight(fl, flight_id, seats, departure, aware, both_keys, t) ==
    LET same(status, detail) ==
            [flights |-> fl,
             resp |-> Response("update_flight", "", flight_id, "",
                               status, detail)]
    IN
    IF seats = 0 THEN same(400, "All fields are required")
    ELSE IF flight_id \notin DOMAIN fl THEN same(404, FlightNotFound)
    ELSE IF seats < fl[flight_id].booked
         THEN same(500, InternalServerError)
    ELSE IF ~aware \/ departure < t THEN same(500, DatabaseError)
    ELSE IF ~both_keys THEN same(500, DatabaseError)
    ELSE [flights |-> [fl EXCEPT ![flight_id].seats = seats,
                                 ![flight_id].departure = departure,
                                 ![flight_id].aware = aware],
          resp |-> Response("update_flight", "", flight_id, "", 200, "")]

FlightDeleted  == "deleted with no bookings"
FlightCanceled == "canceled successfully"

\* os.remove(cache_path) with cache_path the DIRECTORY of the flight's
\* images: os.remove refuses a directory (IsADirectoryError, PermissionError
\* on Windows), the bare except passes, and every file stays
remove_cache_directory(ca, flight_id) == ca

\* a variant that deletes the flight row and leaves its bookings
delete_flight_only(fl, bk, ca, flight_id) ==
    IF flight_id \notin DOMAIN fl
    THEN [flights |-> fl, bookings |-> bk, cache |-> ca,
          resp |-> Response("delete_flight", "", flight_id, "", 500,
                            DatabaseError)]
    ELSE [flights |-> [f \in DOMAIN fl \ {flight_id} |-> fl[f]],
          bookings |-> bk, cache |-> ca,
          resp |-> Response("delete_flight", "", flight_id, "", 200,
                            FlightCanceled)]

\* DELETE /flights/{flight_id}: the 404 of an unknown flight is raised
\* inside the try and answered with 500.  The cancellation notices never
\* reach the relay: send_cancel is given a dict and build_cancel's
\* `booking.userId` raises AttributeError, which the loop's except logs
delete_flight(fl, bk, ca, flight_id) ==
    LET resp(status, detail) ==
            Response("delete_flight", "", flight_id, "", status, detail)
        rest == [f \in DOMAIN fl \ {flight_id} |-> fl[f]]
    IN
    IF flight_id \notin DOMAIN fl
    THEN [flights |-> fl, bookings |-> bk, cache |-> ca,
          resp |-> resp(500, DatabaseError)]
    ELSE IF {b \in bk : b.flightId = flight_id} = {}
         THEN [flights |-> rest, bookings |-> bk, cache |-> ca,
               resp |-> resp(200, FlightDeleted)]
    ELSE [flights |-> rest,
          bookings |-> {b \in bk : b.flightId # flight_id},
          cache |-> remove_cache_directory(ca, flight_id),
          resp |-> resp(200, FlightCanceled)]

----------------------------------------------------------------------------
(* src/core/srs.py: the Notification Relay client *)

\* what the relay does with a POST: it answers 200, it answers another
\* status, or the call fails (connection error, or no answer within the
\* client's 10 seconds)
RelayOutcomes == {"delivered", "rejected", "unreachable"}

\* a variant of _post without its try/except
post_unguarded(relay) ==
    [raised |-> relay = "unreachable",
     value |-> IF relay = "delivered" THEN Some(TRUE) ELSE None]

\* SRSClient._post: True on 200, None on another status, False on an
\* exception of the HTTP call; nothing is raised to the caller
post(relay) ==
    [raised |-> FALSE,
     value |-> IF relay = "delivered" THEN Some(TRUE)
               ELSE IF relay = "rejected" THEN None
               ELSE Some(FALSE)]

\* create_booking after its database writes: the notification is awaited
\* in a try of its own, whose except passes
booking_sent(r, sent) == r

\* cancel_booking after its database writes: the notification is awaited
\* inside the try of the writes, so an exception leaving send_cancel would
\* be answered with 500
cancel_sent(r, sent) ==
    IF r.resp.detail = Canceled /\ sent.raised
    THEN [r EXCEPT !.resp.status = 500, !.resp.detail = DatabaseError]
    ELSE r

\* both check-in handlers after the image: the notification is awaited in
\* a try of its own, whose except passes
checkin_sent(r, sent) == r

----------------------------------------------------------------------------
(* The requests of the model *)

\* seats a staff request may carry
SeatInputs == -1..MaxSeats

CreateInputs ==
    [user : UserIds, flight_id : FlightIds \cup {""},
     dep : BodyDepartures, drawn : CodeSpace, relay : RelayOutcomes]

CancelInputs ==
    [user : UserIds, confirmation : CodeSpace \cup {""},
     relay : RelayOutcomes]

Create(i) ==
    booking_sent(create_booking(flights, bookings, i.user, i.flight_id,
                                i.dep, i.drawn, now),
                 post(i.relay))

Cancel(i) ==
    cancel_sent(cancel_booking(flights, bookings, cache, i.user,
                               i.confirmation, now),
                post(i.relay))

----------------------------------------------------------------------------
(* Spec: the handlers, one request after the other *)

Init ==
    /\ flights = << >>
    /\ bookings = {}
    /\ cache = << >>
    /\ now = 0
    /\ tasks = << >>
    /\ gen = << >>

CreateFlight ==
    \E flight_id \in FlightIds, seats \in SeatInputs, aware \in BOOLEAN :
        /\ flights' = create_flight(flights, flight_id, seats,
                                    Departure, aware).flights
        /\ UNCHANGED <<bookings, cache, now, tasks, gen>>

UpdateFlight ==
    \E flight_id \in FlightIds, seats \in SeatInputs,
       aware \in BOOLEAN, both_keys \in BOOLEAN :
        /\ flights' = update_flight(flights, flight_id, seats, Departure,
                                    aware, both_keys, now).flights
        /\ UNCHANGED <<bookings, cache, now, tasks, gen>>

CreateBooking ==
    \E i \in CreateInputs :
        /\ Cardinality(bookings) < MaxBookings
        /\ flights' = Create(i).flights
        /\ bookings' = Create(i).bookings
        /\ UNCHANGED <<cache, now, tasks, gen>>

CancelBooking ==
    \E i \in CancelInputs :
        /\ flights' = Cancel(i).flights
        /\ bookings' = Cancel(i).bookings
        /\ cache' = Cancel(i).cache
        /\ UNCHANGED <<now, tasks, gen>>

StartCheckin ==
    \E user \in UserIds, confirmation \in CodeSpace \cup {""},
       render_ok \in BOOLEAN, relay \in RelayOutcomes :
        LET r == checkin_sent(start_checkin(flights, bookings, cache, user,
                                            confirmation, render_ok, now),
                              post(relay))
        IN /\ bookings' = r.bookings
           /\ cache' = r.cache
           /\ UNCHANGED <<flights, now, tasks, gen>>

StaffCheckin ==
    \E staff \in FlightStaff, target_user \in UserIds,
       confirmation \in CodeSpace \cup {""}, render_ok \in BOOLEAN,
       relay \in RelayOutcomes :
        LET r == checkin_sent(staff_checkin(flights, bookings, cache, staff,
                                            target_user, confirmation,
                                            render_ok, now),
                              post(relay))
        IN /\ bookings' = r.bookings
           /\ cache' = r.cache
           /\ UNCHANGED <<flights, now, tasks, gen>>

GetPrintedBoardingPass ==
    \E user \in UserIds, confirmation \in CodeSpace, render_ok \in BOOLEAN :
        /\ cache' = get_printed_boarding_pass(flights, bookings, cache, user,
                                              confirmation, render_ok).cache
        /\ UNCHANGED <<flights, bookings, now, tasks, gen>>

Tick ==
    /\ \E t \in Instants : t > now /\ now' = t
    /\ UNCHANGED <<flights, bookings, cache, tasks, gen>>

Next ==
    \/ CreateFlight
    \/ UpdateFlight
    \/ CreateBooking
    \/ CancelBooking
    \/ StartCheckin
    \/ StaffCheckin
    \/ GetPrintedBoardingPass
    \/ Tick

Spec == Init /\ [][Next]_vars

----------------------------------------------------------------------------
(* Properties of Spec *)

Codes(bk) == {b.confirmationNumber : b \in bk}

SeatsOK(fl) ==
    \A f \in DOMAIN fl :
        fl[f].seats >= 0 => 0 <= fl[f].booked /\ fl[f].booked <= fl[f].seats

Unchanged(r) == r.flights = flights /\ r.bookings = bookings

\* C1: every flight with seats >= 0 has 0 <= booked <= seats, in every
\* reachable state and after any create_booking or cancel_booking handled
\* in it; and verify_seats turns any (seats, booked) pair that violates
\* 0 <= booked <= seats into one that satisfies it.
C1_SeatInvariant ==
    /\ SeatsOK(flights)
    /\ \A i \in CreateInputs : SeatsOK(Create(i).flights)
    /\ \A i \in CancelInputs : SeatsOK(Cancel(i).flights)
    /\ \A seats \in -VerifyRange..VerifyRange,
          booked \in -VerifyRange..VerifyRange :
          LET r == verify_row(seats, booked) IN
          0 <= r.booked /\ r.booked <= r.seats

C1_Witness ==
    \E f \in DOMAIN flights :
        /\ flights[f].booked = flights[f].seats
        /\ flights[f].seats = MaxSeats
        /\ \E i \in CancelInputs :
               /\ Cancel(i).resp.detail = Canceled
               /\ Cancel(i).flights[f].booked = MaxSeats - 1

UserFlightUnique ==
    \A b1, b2 \in bookings :
        b1.userId = b2.userId /\ b1.flightId = b2.flightId => b1 = b2

\* C2 as claimed: a (user, flight) pair has at most one booking, and a
\* create_booking by a user who holds a booking on the flight fails with
\* DuplicateBooking and changes nothing.
C2_Original ==
    /\ UserFlightUnique
    /\ \A i \in CreateInputs :
          existing(bookings, i.user, i.flight_id) =>
              Create(i).resp.detail = DuplicateBooking /\ Unchanged(Create(i))

\* the error create_booking reports for a request it refuses at or before
\* the duplicate scan, by the order of its checks
RefusalOf(i) ==
    IF departed(parse_datetime(i.dep), now) THEN FlightDeparted
    ELSE IF i.flight_id \notin DOMAIN flights THEN FlightNotFound
    ELSE IF no_seats(flights[i.flight_id]) THEN CapacityExceeded
    ELSE DuplicateBooking

\* C2 amended: a (user, flight) pair has at most one booking, and a
\* create_booking by a user who holds a booking on the flight fails and
\* changes nothing; the error is DuplicateBooking unless an earlier check
\* refuses the request: FlightDeparted when the departure in the body is
\* more than 45 minutes past, CapacityExceeded when the flight is full.
C2_DuplicateRefused ==
    /\ UserFlightUnique
    /\ \A i \in CreateInputs :
          existing(bookings, i.user, i.flight_id) =>
              /\ Create(i).resp.detail = RefusalOf(i)
              /\ Create(i).resp.status # 200
              /\ Unchanged(Create(i))

C2_Witness ==
    \E i, j \in CreateInputs :
        /\ existing(bookings, i.user, i.flight_id)
        /\ Create(i).resp.detail = DuplicateBooking
        /\ existing(bookings, j.user, j.flight_id)
        /\ Create(j).resp.detail = CapacityExceeded

Full(f) == f \in DOMAIN flights /\ flights[f].booked = flights[f].seats

\* C3 as claimed: create_booking on a flight with booked = seats fails
\* with CapacityExceeded and changes nothing.
C3_Original ==
    \A i \in CreateInputs :
        Full(i.flight_id) =>
            Create(i).resp.detail = CapacityExceeded /\ Unchanged(Create(i))

\* C3 amended: create_booking on a flight with booked = seats fails and
\* changes nothing; the error is CapacityExceeded unless the departure in
\* the request body is more than 45 minutes past, which is checked first
\* and reported as FlightDeparted.
C3_FullFlightRefused ==
    \A i \in CreateInputs :
        Full(i.flight_id) =>
            /\ Create(i).resp.detail =
                   IF departed(parse_datetime(i.dep), now)
                   THEN FlightDeparted ELSE CapacityExceeded
            /\ Unchanged(Create(i))

C3_Witness ==
    \E i, j \in CreateInputs :
        /\ Full(i.flight_id) /\ flights[i.flight_id].seats = MaxSeats
        /\ Create(i).resp.detail = CapacityExceeded
        /\ Full(j.flight_id)
        /\ Create(j).resp.detail = FlightDeparted

ConfirmationUnique ==
    \A b1, b2 \in bookings :
        b1.confirmationNumber = b2.confirmationNumber => b1 = b2

\* a booking is the row of its (userId, flightId) pair: a step never
\* leaves that row with another confirmation code
ConfirmationKept ==
    \A b \in bookings : \A c \in bookings' :
        b.userId = c.userId /\ b.flightId = c.flightId =>
            b.confirmationNumber = c.confirmationNumber

\* C4: no two booking rows share a confirmation code, and no step
\* (check-in, staff check-in, flight update, cancel of another booking)
\* changes the confirmation code of a booking that stays.
C4_ConfirmationUniqueImmutable ==
    []ConfirmationUnique /\ [][ConfirmationKept]_vars

C4_Witness ==
    \E b1, b2 \in bookings :
        /\ b1 # b2
        /\ b1.checkedInAt # None
        /\ b2.boardingPosition # << >>
        /\ flights[b1.flightId].seats = 1

\* C5: a successful cancel_booking, on a flight with booked >= 1, removes
\* exactly the cancelled booking, lowers booked of its flight by 1 with
\* seats as they were, leaves no cached artifact under (flight,
\* confirmation), and changes no other booking, flight or artifact.
C5_CancelEffect ==
    \A i \in CancelInputs :
        LET r == Cancel(i)
            f == r.resp.flight
            key == <<f, i.confirmation>>
        IN (r.resp.detail = Canceled /\ flights[f].booked >= 1) =>
            /\ \E b \in bookings :
                   /\ b.confirmationNumber = i.confirmation
                   /\ b.userId = i.user /\ b.flightId = f
                   /\ r.bookings = bookings \ {b}
            /\ r.flights = [flights EXCEPT ![f].booked = @ - 1]
            /\ DOMAIN r.cache = DOMAIN cache \ {key}
            /\ \A k \in DOMAIN r.cache : r.cache[k] = cache[k]

C5_Witness ==
    \E i \in CancelInputs :
        /\ Cancel(i).resp.detail = Canceled
        /\ <<Cancel(i).resp.flight, i.confirmation>> \in DOMAIN cache
        /\ Cardinality(DOMAIN cache) = 2
        /\ Cardinality(DOMAIN flights) = 2

\* a request create_booking refuses for no reason of its own
Valid(i) ==
    /\ i.flight_id \in DOMAIN flights
    /\ ~departed(parse_datetime(i.dep), now)
    /\ ~no_seats(flights[i.flight_id])
    /\ ~existing(bookings, i.user, i.flight_id)

\* C7: a valid create_booking whose drawn code is the code of an existing
\* booking still succeeds, with a code no existing booking has.
C7_CollisionRetried ==
    \A i \in CreateInputs :
        (Valid(i) /\ i.drawn \in Codes(bookings)) =>
            /\ Create(i).resp.detail = Booked
            /\ Create(i).resp.conf \notin Codes(bookings)

\* the stored departure of the flight a cancel request is about
StoredDeparture(f) == flights[f].departure

\* C9: from 45 minutes before the stored departure on, create_booking and
\* the owner's cancel_booking on an existing flight fail with
\* FlightDeparted and change nothing, whatever the body carries.
C9_DepartedRefused ==
    /\ \A i \in CreateInputs :
          (i.flight_id \in DOMAIN flights
             /\ now >= StoredDeparture(i.flight_id) - DepartedPadMinutes) =>
              Create(i).resp.detail = FlightDeparted /\ Unchanged(Create(i))
    /\ \A i \in CancelInputs : \A b \in bookings :
          (b.confirmationNumber = i.confirmation /\ b.userId = i.user
             /\ b.flightId \in DOMAIN flights
             /\ now >= StoredDeparture(b.flightId) - DepartedPadMinutes) =>
              /\ Cancel(i).resp.detail = FlightDeparted
              /\ Unchanged(Cancel(i)) /\ Cancel(i).cache = cache

\* C10: cancel_booking by a user who does not own the booking fails with
\* NotAuthorized and leaves the booking, the flights and the cached
\* artifacts as they were.
C10_NotOwnerRefused ==
    \A i \in CancelInputs : \A b \in bookings :
        (b.confirmationNumber = i.confirmation /\ b.userId # i.user) =>
            /\ Cancel(i).resp.detail = NotAuthorized
            /\ Unchanged(Cancel(i)) /\ Cancel(i).cache = cache

C10_Witness ==
    \E i \in CancelInputs : \E b \in bookings :
        /\ b.confirmationNumber = i.confirmation /\ b.userId # i.user
        /\ <<b.flightId, b.confirmationNumber>> \in DOMAIN cache
        /\ Cancel(i).resp.detail = NotAuthorized
        /\ ~departed(Some(flights[b.flightId].departure), now)

----------------------------------------------------------------------------
(* SpecConc: create_booking requests in flight together.                   *)
(* The handler is suspended at `await request.json()` (line 58), before    *)
(* it reads anything, and at `await srs_client.send_booking` (line 121),   *)
(* after its last write; lines 60-118 run without suspension.              *)

TaskIds == 1..NumTasks

IdleTask == [pc |-> "idle", user |-> "", flight_id |-> "", detail |-> ""]

FreeSeats(fl, f) ==
    IF f \in DOMAIN fl THEN fl[f].seats - fl[f].booked ELSE 0

\* the pairs of requests that wait for their bodies together while their
\* flight has exactly one free seat
Racing(req, fl) ==
    {p \in TaskIds \X TaskIds :
        /\ p[1] < p[2]
        /\ req[p[1]].pc = "json" /\ req[p[2]].pc = "json"
        /\ req[p[1]].flight_id = req[p[2]].flight_id
        /\ FreeSeats(fl, req[p[1]].flight_id) = 1}

\* tasks.raced only records history: every pair that has been Racing
Record(req, fl) ==
    [req |-> req, raced |-> tasks.raced \cup Racing(req, fl)]

InitConc ==
    /\ \E seats \in 1..MaxSeats :
           flights = create_flight(<< >>, "SW1", seats, Departure,
                                   TRUE).flights
    /\ bookings = {}
    /\ cache = << >>
    /\ now = 0
    /\ tasks = [req |-> [t \in TaskIds |-> IdleTask], raced |-> {}]
    /\ gen = << >>

\* the request arrives: Session.from_request, then `await request.json()`
Receive(t) ==
    /\ tasks.req[t].pc = "idle"
    /\ \E user \in UserIds, flight_id \in FlightIds :
           tasks' = Record([tasks.req EXCEPT ![t] =
                               [pc |-> "json", user |-> user,
                                flight_id |-> flight_id, detail |-> ""]],
                           flights)
    /\ UNCHANGED <<flights, bookings, cache, now, gen>>

\* the body has arrived: lines 60-118, up to the HTTPException or to the
\* `await` of the notification
Body(t) ==
    /\ tasks.req[t].pc = "json"
    /\ \E dep \in BodyDepartures, drawn \in CodeSpace :
           LET r == create_booking(flights, bookings, tasks.req[t].user,
                                   tasks.req[t].flight_id, dep, drawn, now)
           IN /\ flights' = r.flights
              /\ bookings' = r.bookings
              /\ tasks' = Record(
                     [tasks.req EXCEPT
                         ![t].pc = IF r.resp.status = 200 THEN "srs"
                                   ELSE "done",
                         ![t].detail = IF r.resp.status = 200 THEN ""
                                       ELSE r.resp.detail],
                     r.flights)
    /\ UNCHANGED <<cache, now, gen>>

\* send_booking has returned or raised (lines 120-127): the response
Notified(t) ==
    /\ tasks.req[t].pc = "srs"
    /\ tasks' = Record([tasks.req EXCEPT ![t].pc = "done",
                                         ![t].detail = Booked],
                       flights)
    /\ UNCHANGED <<flights, bookings, cache, now, gen>>

NextConc ==
    \E t \in TaskIds : Receive(t) \/ Body(t) \/ Notified(t)

SpecConc == InitConc /\ [][NextConc]_vars

Answered(t) == tasks.req[t].pc = "done"

\* C6 as claimed: two create_booking requests in flight together on a
\* flight with exactly one free seat both pass the capacity check, so both
\* are answered with success.
C6_Original ==
    \A p \in tasks.raced :
        Answered(p[1]) /\ Answered(p[2]) =>
            tasks.req[p[1]].detail = Booked /\ tasks.req[p[2]].detail = Booked

\* C6 amended: two create_booking requests in flight together on a flight
\* with exactly one free seat never both succeed: a request's capacity
\* check, insert and increment run without suspension, so at most one of
\* the two is booked and booked never exceeds seats.
C6_NoDoubleBooking ==
    /\ \A p \in tasks.raced :
          ~(tasks.req[p[1]].detail = Booked /\ tasks.req[p[2]].detail = Booked)
    /\ \A f \in DOMAIN flights :
          /\ flights[f].booked = Cardinality({b \in bookings : b.flightId = f})
          /\ flights[f].booked <= flights[f].seats

C6_Witness ==
    \E p \in tasks.raced :
        /\ tasks.req[p[1]].user # tasks.req[p[2]].user
        /\ Answered(p[1]) /\ Answered(p[2])
        /\ {tasks.req[p[1]].detail, tasks.req[p[2]].detail}
               = {Booked, CapacityExceeded}

----------------------------------------------------------------------------
(* SpecGen: one call of generate_confirmation_number                       *)
(* (src/core/flights/booking_utils.py).  gen.depth counts the frames of    *)
(* the call; MaxDepth stands for the interpreter's recursion limit.        *)

\* the booking tables the call may find: rows with distinct codes and
\* distinct (user, flight) pairs
GenTables ==
    {t \in SUBSET [userId : UserIds, flightId : FlightIds,
                   confirmationNumber : CodeSpace,
                   boardingGroup : {""}, boardingPosition : {<< >>},
                   checkedInAt : {None}] :
        /\ Cardinality(t) <= MaxBookings
        /\ \A b1, b2 \in t :
              (b1.confirmationNumber = b2.confirmationNumber
                 \/ (b1.userId = b2.userId /\ b1.flightId = b2.flightId))
              => b1 = b2}

InitGen ==
    /\ bookings \in GenTables
    /\ flights = [f \in FlightIds |->
                     [seats |-> MaxBookings,
                      booked |-> Cardinality({b \in bookings : b.flightId = f}),
                      departure |-> Departure, aware |-> TRUE]]
    /\ cache = << >>
    /\ now = 0
    /\ tasks = << >>
    /\ gen = [pc |-> "draw", depth |-> 1, code |-> ""]

\* code = ''.join(secrets.choice(characters) for _ in range(length))
GenDraw ==
    /\ gen.pc = "draw"
    /\ \E code \in CodeSpace : gen' = [gen EXCEPT !.pc = "query", !.code = code]
    /\ UNCHANGED <<flights, bookings, cache, now, tasks>>

\* existing = get_one_query(...); `if not existing:` the function calls
\* itself, else the loop draws again
GenQuery ==
    /\ gen.pc = "query"
    /\ gen' = IF gen.code \in Codes(bookings)
              THEN [gen EXCEPT !.pc = "draw"]
              ELSE IF gen.depth + 1 > MaxDepth
                   THEN [gen EXCEPT !.pc = "RecursionError"]
                   ELSE [gen EXCEPT !.pc = "draw", !.depth = @ + 1]
    /\ UNCHANGED <<flights, bookings, cache, now, tasks>>

NextGen == GenDraw \/ GenQuery

SpecGen == InitGen /\ [][NextGen]_vars

\* C8: a call made while some code is unused ends by returning a code,
\* never by an exception, and the code it returns is no booking's code.
C8_GeneratorReturns ==
    (CodeSpace \ Codes(bookings) # {}) =>
        /\ gen.pc # "RecursionError"
        /\ gen.pc = "returned" => gen.code \notin Codes(bookings)

----------------------------------------------------------------------------
(* SpecAlloc: assign_boarding_position on a flight that fills up.          *)
(* Passengers of SW1 check in one after the other and take the position    *)
(* the allocator returns (checkin.py lines 98-108); cancellations open     *)
(* holes.  A passenger is named by a number: its userId and its            *)
(* confirmationNumber.                                                     *)

AllPairs == Len(Groups) * PositionsPerGroup

Passengers == 1..(AllPairs + MaxOverflow)

\* the pairs in the order A1..A60, B1..B60, C1..C60, as stored strings
PairTable ==
    [i \in 1..AllPairs |->
        format_position(Groups[((i - 1) \div PositionsPerGroup) + 1],
                        ((i - 1) % PositionsPerGroup) + 1)]

PairAt(i) == PairTable[i]

\* the positions the bookings of a flight hold, as stored
Held(bk, flight_id) ==
    {b.boardingPosition : b \in {x \in bk : x.flightId = flight_id
                                            /\ x.boardingPosition # << >>}}

FreePairs(bk, flight_id) ==
    LET held == Held(bk, flight_id) IN
    {i \in 1..AllPairs : PairTable[i] \notin held}

\* the number of holes: free pairs below a held one
Holes(bk, flight_id) ==
    LET free == FreePairs(bk, flight_id)
        heldIdx == (1..AllPairs) \ free
    IN Cardinality({i \in free : \E j \in heldIdx : i < j})

AllocRow(passenger, flight_id, position) ==
    [userId |-> passenger, flightId |-> flight_id,
     confirmationNumber |-> passenger,
     boardingGroup |-> IF position = << >> THEN "" ELSE Head(position),
     boardingPosition |-> position, checkedInAt |-> None]

\* SW2 has a passenger at A1, SW1 a passenger who has not checked in
InitAlloc ==
    /\ flights = [f \in FlightIds |->
                     [seats |-> AllPairs + MaxOverflow,
                      booked |-> 1, departure |-> Departure,
                      aware |-> TRUE]]
    /\ bookings = {AllocRow(1, "SW2", format_position("A", 1)),
                   AllocRow(AllPairs + MaxOverflow, "SW1", << >>)}
    /\ cache = << >>
    /\ now = 0
    /\ tasks = << >>
    /\ gen = << >>

CheckedInOn(bk, flight_id) ==
    {b \in bk : b.flightId = flight_id /\ b.boardingPosition # << >>}

\* the next passenger of SW1 books and checks in: it is given the position
\* the allocator returns
AllocCheckin ==
    /\ Cardinality(CheckedInOn(bookings, "SW1")) < AllPairs + MaxOverflow - 1
    /\ LET position == assign_boarding_position(bookings, "SW1")
           used == {b.userId : b \in {x \in bookings : x.flightId = "SW1"}}
           passenger == CHOOSE i \in Passengers \ used :
                            \A j \in Passengers \ used : i <= j
       IN bookings' = bookings \cup {AllocRow(passenger, "SW1", position)}
    /\ flights' = change_bookings(flights, "SW1", 1, "add")
    /\ UNCHANGED <<cache, now, tasks, gen>>

\* the pairs whose holders may cancel: the first and the last pair of every
\* run of HoleStride pairs
CancelSites == {i \in 1..AllPairs : i % HoleStride \in {0, 1}}

\* a checked-in passenger of SW1 cancels
AllocCancel ==
    /\ \E k \in CancelSites :
       \E b \in {x \in bookings : x.flightId = "SW1"
                                  /\ x.boardingPosition = PairTable[k]} :
           /\ bookings' = Bookings_delete(bookings, b.confirmationNumber)
           /\ Holes(bookings', "SW1") <= MaxHoles
    /\ flights' = change_bookings(flights, "SW1", 1, "sub")
    /\ UNCHANGED <<cache, now, tasks, gen>>

NextAlloc == AllocCheckin \/ AllocCancel

SpecAlloc == InitAlloc /\ [][NextAlloc]_vars

\* C11: assign_boarding_position returns the least pair, in the order
\* A1..A60, B1..B60, C1..C60, that no booking of the flight holds; C1 when
\* exactly the pairs of A and B are held; C60 when all 180 pairs are held.
C11_LeastFreePosition ==
    \A f \in FlightIds :
        LET free == FreePairs(bookings, f)
            got == assign_boarding_position(bookings, f)
        IN /\ free # {} =>
                 got = PairAt(CHOOSE i \in free : \A j \in free : i <= j)
           /\ free = (2 * PositionsPerGroup + 1)..AllPairs =>
                 got = <<"C", "1">>
           /\ free = {} => got = <<"C", "6", "0">>

C11_Witness ==
    /\ FreePairs(bookings, "SW1") = {}
    /\ assign_boarding_position(bookings, "SW1") = <<"C", "6", "0">>
    /\ Cardinality({b \in bookings : b.flightId = "SW1"
                       /\ b.boardingPosition = <<"C", "6", "0">>}) = 2

----------------------------------------------------------------------------
(* Properties of check-in (Spec) *)

\* the instants a check-in request may arrive at, around the two windows
\* of a departure
WindowInstants(departure) ==
    {departure - EarlyBirdWindowHours * 60 - 1,
     departure - EarlyBirdWindowHours * 60,
     departure - WindowHours * 60 - 1,
     departure - WindowHours * 60,
     departure + DepartedPadMinutes + 1}

\* what C12 asks of the outcome r of a check-in of booking b at instant t,
\* W being the window of the user whose Early-Bird flag counts
WindowOutcome(r, b, t, W) ==
    IF flights[b.flightId].departure - t > W * 60
    THEN r.resp.detail = TooEarly /\ r.bookings = bookings
    ELSE /\ r.resp.status = 200
         /\ RowOf(r.bookings, b.confirmationNumber).checkedInAt = Some(t)

\* C12: with DEVMODE off and a working renderer, a check-in (start_checkin
\* by any user, staff_checkin for any target user) of an existing booking
\* fails with TooEarly and changes no booking when the departure is more
\* than W hours after the request, and otherwise succeeds and stamps the
\* booking; W is 36 for an Early-Bird user and 24 otherwise.
C12_WindowEnforced ==
    \A b \in bookings : \A t \in WindowInstants(flights[b.flightId].departure) :
        /\ \A user \in UserIds :
              WindowOutcome(
                  start_checkin(flights, bookings, cache, user,
                                b.confirmationNumber, TRUE, t),
                  b, t,
                  IF user \in EarlyBirds THEN EarlyBirdWindowHours
                  ELSE WindowHours)
        /\ \A staff \in FlightStaff, target_user \in UserIds :
              WindowOutcome(
                  staff_checkin(flights, bookings, cache, staff, target_user,
                                b.confirmationNumber, TRUE, t),
                  b, t,
                  IF target_user \in EarlyBirds THEN EarlyBirdWindowHours
                  ELSE WindowHours)

\* the cache key of a booking row
KeyOf(b) == <<b.flightId, b.confirmationNumber>>

\* a start_checkin answered with success returns the bytes then cached
\* under the booking's key, which are the bytes cached before if there were
\* any; a check-in (start or staff) of a booking that has a position keeps
\* its group and position
RepeatReturnsCached ==
    \A b \in bookings : \A user \in UserIds, render_ok \in BOOLEAN :
        LET r == start_checkin(flights, bookings, cache, user,
                               b.confirmationNumber, render_ok, now)
            s == staff_checkin(flights, bookings, cache,
                               CHOOSE staff \in FlightStaff : TRUE, user,
                               b.confirmationNumber, render_ok, now)
            kept(q) ==
                b.boardingPosition # << >> =>
                    LET row == RowOf(q.bookings, b.confirmationNumber) IN
                    /\ row.boardingPosition = b.boardingPosition
                    /\ row.boardingGroup = b.boardingGroup
        IN /\ kept(r) /\ kept(s)
           /\ r.resp.status = 200 =>
                 /\ KeyOf(b) \in DOMAIN r.cache
                 /\ r.resp.content = Some(r.cache[KeyOf(b)])
                 /\ KeyOf(b) \in DOMAIN cache =>
                        r.cache[KeyOf(b)] = cache[KeyOf(b)]
           /\ s.resp.status = 200 /\ KeyOf(b) \in DOMAIN cache =>
                 s.cache[KeyOf(b)] = cache[KeyOf(b)]

\* a step never changes the bytes cached under a key, and never changes
\* the group or the position of a booking that has one
CachedBytesKept ==
    /\ \A k \in DOMAIN cache \cap DOMAIN cache' : cache'[k] = cache[k]
    /\ \A b \in bookings : \A c \in bookings' :
          (b.confirmationNumber = c.confirmationNumber
             /\ b.userId = c.userId /\ b.flightId = c.flightId
             /\ b.boardingPosition # << >>) =>
              /\ c.boardingPosition = b.boardingPosition
              /\ c.boardingGroup = b.boardingGroup

\* C13: a check-in repeated on a checked-in booking that is not cancelled
\* in between keeps the group and the position of the first check-in, and
\* start_checkin returns the bytes the first successful check-in cached:
\* every successful start_checkin returns the cached bytes, and no step
\* changes cached bytes, a group or a position.
C13_RepeatedCheckinIdempotent ==
    []RepeatReturnsCached /\ [][CachedBytesKept]_vars

\* a checked-in booking whose artifact was cached at an earlier instant: a
\* repeated start_checkin returns the cached bytes, which still show the
\* first check-in's timestamp
C13_Witness ==
    \E b \in bookings : \E user \in UserIds :
        LET r == start_checkin(flights, bookings, cache, user,
                               b.confirmationNumber, TRUE, now)
        IN /\ KeyOf(b) \in DOMAIN cache
           /\ b.checkedInAt # None /\ Val(b.checkedInAt) < now
           /\ r.resp.status = 200
           /\ r.resp.content = Some(cache[KeyOf(b)])
           /\ cache[KeyOf(b)].checkedInAt # Some(now)
           /\ RowOf(r.bookings, b.confirmationNumber).checkedInAt = Some(now)

----------------------------------------------------------------------------
(* SpecSteps: one check-in request, statement by statement                 *)
(*                                                                         *)
(* start_checkin and staff_checkin run the same statements after their     *)
(* validation: the position is assigned and written if the booking has     *)
(* none, checkedInAt is written, the image is generated, the notification  *)
(* is awaited, the response is returned.  `tasks` is the request in        *)
(* progress: its position in the handler, what it carries and, once it is  *)
(* answered, the response and the tables it started from.                  *)

IdleRequest ==
    [pc |-> "idle", op |-> "", window_user |-> "", confirmation |-> "",
     status |-> 0, sent |-> None, bytes |-> None, before |-> << >>]

InitSteps ==
    /\ bookings \in GenTables
    /\ flights = [f \in FlightIds |->
                     [seats |-> MaxBookings,
                      booked |-> Cardinality({b \in bookings : b.flightId = f}),
                      departure |-> Departure, aware |-> TRUE]]
    /\ cache = << >>
    /\ now \in Instants
    /\ tasks = IdleRequest
    /\ gen = << >>

\* the session user of a handler: start_checkin is open to every user,
\* staff_checkin to flight staff
CallerOf(op, window_user) ==
    IF op = "start_checkin" THEN window_user
    ELSE CHOOSE staff \in FlightStaff : TRUE

\* the status the validation of a check-in answers, 0 if it lets the
\* request through
checkin_refusal(fl, bk, window_user, confirmation, t) ==
    LET found == Bookings_get_by_confirmation(bk, confirmation) IN
    IF confirmation = "" THEN 400
    ELSE IF found = {} THEN 404
    ELSE IF Val(found).flightId \notin DOMAIN fl THEN 500
    ELSE IF window_user \notin UserIds THEN 404
    ELSE IF naive_departure(fl[Val(found).flightId]) THEN 500
    ELSE IF too_early(fl[Val(found).flightId].departure, t, window_user)
         THEN 400
    ELSE 0

\* the request arrives and is validated: a refused request is answered at
\* once, another one goes on to the assignment of the position
StepValidate ==
    /\ tasks.pc = "idle"
    /\ \E op \in {"start_checkin", "staff_checkin"}, window_user \in UserIds,
          confirmation \in CodeSpace \cup {""} :
          LET status == checkin_refusal(flights, bookings, window_user,
                                        confirmation, now)
              request == [IdleRequest EXCEPT !.op = op,
                             !.window_user = window_user,
                             !.confirmation = confirmation,
                             !.before = <<bookings, cache, now>>]
          IN tasks' = IF status # 0
                      THEN [request EXCEPT !.status = status]
                      ELSE [request EXCEPT !.pc = "position"]
    /\ UNCHANGED <<flights, bookings, cache, now, gen>>

\* if not booking["boardingPosition"]: assign and UPDATE group and position
StepPosition ==
    /\ tasks.pc = "position"
    /\ LET booking == RowOf(bookings, tasks.confirmation)
           position == assign_boarding_position(bookings, booking.flightId)
       IN bookings' = IF booking.boardingPosition = << >>
                      THEN set_position(bookings, tasks.confirmation,
                                        Head(position), position)
                      ELSE bookings
    /\ tasks' = [tasks EXCEPT !.pc = "stamp"]
    /\ UNCHANGED <<flights, cache, now, gen>>

\* UPDATE bookings SET checkedInAt = now
StepStamp ==
    /\ tasks.pc = "stamp"
    /\ bookings' = set_checked_in(bookings, tasks.confirmation, now)
    /\ tasks' = [tasks EXCEPT !.pc = "render"]
    /\ UNCHANGED <<flights, cache, now, gen>>

\* buffer = generate_boarding_pass_image(confirmation): a failure is
\* answered with 500, the notification is not attempted
StepRender ==
    /\ tasks.pc = "render"
    /\ \E render_ok \in BOOLEAN :
          LET img == generate_boarding_pass_image(
                         flights, bookings, cache, tasks.confirmation,
                         FALSE, render_ok)
          IN /\ cache' = img.cache
             /\ tasks' = IF img.ok
                         THEN [tasks EXCEPT !.pc = "notify",
                                            !.bytes = img.bytes]
                         ELSE [tasks EXCEPT !.pc = "idle", !.status = 500]
    /\ UNCHANGED <<flights, bookings, now, gen>>

\* await srs_client.send_checkin(...) in a try whose except passes, then
\* the response: `sent` keeps what the relay did with the call
StepNotify ==
    /\ tasks.pc = "notify"
    /\ \E relay \in RelayOutcomes :
          tasks' = [tasks EXCEPT !.pc = "idle", !.sent = Some(relay),
                                 !.status = 200]
    /\ UNCHANGED <<flights, bookings, cache, now, gen>>

\* time passes between requests
StepTick ==
    /\ tasks.pc = "idle"
    /\ \E t \in Instants : t > now /\ now' = t
    /\ UNCHANGED <<flights, bookings, cache, tasks, gen>>

NextSteps ==
    \/ StepValidate
    \/ StepPosition
    \/ StepStamp
    \/ StepRender
    \/ StepNotify
    \/ StepTick

SpecSteps == InitSteps /\ [][NextSteps]_vars

\* the handler taken as one step: an answered request leaves the tables
\* and the status that the operator `checkin` computes from the tables the
\* request found
StepsAgree ==
    tasks.pc = "idle" /\ tasks.op # "" =>
        \E render_ok \in BOOLEAN :
            LET r == checkin(tasks.op, flights, tasks.before[1],
                             tasks.before[2],
                             CallerOf(tasks.op, tasks.window_user),
                             tasks.window_user, tasks.confirmation,
                             render_ok, tasks.before[3])
            IN /\ r.bookings = bookings
               /\ r.cache = cache
               /\ r.resp.status = tasks.status

\* the booking a request in progress is about
Current == RowOf(bookings, tasks.confirmation)

\* C14: in a check-in the position is persisted before the timestamp is
\* stamped, the timestamp before the image is rendered and cached, and the
\* image is cached before the notification is attempted; and every booking
\* with a check-in timestamp has a group and a position, the group being
\* the first letter of the position.
C14_CheckinOrder ==
    /\ tasks.pc \in {"stamp", "render", "notify"} =>
           Current.boardingPosition # << >>
    /\ tasks.pc \in {"position", "stamp"} =>
           /\ Current.checkedInAt = RowOf(tasks.before[1],
                                          tasks.confirmation).checkedInAt
           /\ cache = tasks.before[2]
    /\ tasks.pc \in {"render", "notify"} => Current.checkedInAt = Some(now)
    /\ tasks.pc = "render" => cache = tasks.before[2] /\ tasks.sent = None
    /\ tasks.pc = "notify" =>
           /\ KeyOf(Current) \in DOMAIN cache
           /\ tasks.bytes = Some(cache[KeyOf(Current)])
           /\ tasks.sent = None
    /\ tasks.sent # None =>
           /\ KeyOf(Current) \in DOMAIN cache
           /\ Current.checkedInAt = Some(tasks.before[3])
    /\ \A b \in bookings :
           b.checkedInAt # None =>
               /\ b.boardingPosition # << >>
               /\ b.boardingGroup = Head(b.boardingPosition)
               /\ b.boardingGroup \in {Groups[g] : g \in 1..Len(Groups)}

\* a first check-in has been notified: the booking had no position, no
\* timestamp and no cached image when the request arrived
C14_Witness ==
    /\ tasks.sent # None
    /\ RowOf(tasks.before[1], tasks.confirmation).boardingPosition = << >>
    /\ KeyOf(Current) \notin DOMAIN tasks.before[2]
    /\ Current.boardingPosition # << >>
    /\ Current.checkedInAt # None

----------------------------------------------------------------------------
(* Properties of the image cache (Spec) *)

\* C15 as claimed: asked with cache_only = TRUE for a booking that has no
\* cached image, the renderer returns nothing, generates nothing and leaves
\* the cache as it is, and get_printed_boarding_pass answers "not found".
\* The bookings are the checked-in ones, the only ones the handler passes
\* to the renderer.
C15_CacheOnlyNeverGenerates ==
    \A b \in bookings : \A render_ok \in BOOLEAN :
        b.checkedInAt # None /\ KeyOf(b) \notin DOMAIN cache =>
            LET img == generate_boarding_pass_image(
                           flights, bookings, cache, b.confirmationNumber,
                           TRUE, render_ok)
                r == get_printed_boarding_pass(
                         flights, bookings, cache, b.userId,
                         b.confirmationNumber, render_ok)
            IN /\ img.bytes = None
               /\ img.cache = cache
               /\ r.resp.status = 404
               /\ r.cache = cache

----------------------------------------------------------------------------
(* SpecCache: the image cache under check-ins, flight updates,             *)
(* cancellations and flight deletions                                      *)

\* a later departure a staff update may set
Postponed == Departure + 60

InitCache ==
    /\ bookings \in GenTables
    /\ flights = [f \in FlightIds |->
                     [seats |-> MaxBookings,
                      booked |-> Cardinality({b \in bookings : b.flightId = f}),
                      departure |-> Departure, aware |-> TRUE]]
    /\ cache = << >>
    /\ now = 0
    /\ tasks = << >>
    /\ gen = << >>

CacheCheckin ==
    \E op \in {"start_checkin", "staff_checkin"}, window_user \in UserIds,
       confirmation \in CodeSpace, render_ok \in BOOLEAN,
       relay \in RelayOutcomes :
        LET r == checkin_sent(
                     checkin(op, flights, bookings, cache,
                             CallerOf(op, window_user), window_user,
                             confirmation, render_ok, now),
                     post(relay))
        IN /\ bookings' = r.bookings
           /\ cache' = r.cache
           /\ UNCHANGED <<flights, now, tasks, gen>>

CachePrinted ==
    \E user \in UserIds, confirmation \in CodeSpace, render_ok \in BOOLEAN :
        /\ cache' = get_printed_boarding_pass(flights, bookings, cache, user,
                                              confirmation, render_ok).cache
        /\ UNCHANGED <<flights, bookings, now, tasks, gen>>

CacheUpdateFlight ==
    \E flight_id \in FlightIds, departure \in {Departure, Postponed} :
        /\ flights' = update_flight(flights, flight_id, MaxBookings,
                                    departure, TRUE, TRUE, now).flights
        /\ UNCHANGED <<bookings, cache, now, tasks, gen>>

CacheCancel ==
    \E i \in CancelInputs :
        /\ flights' = Cancel(i).flights
        /\ bookings' = Cancel(i).bookings
        /\ cache' = Cancel(i).cache
        /\ UNCHANGED <<now, tasks, gen>>

CacheDeleteFlight ==
    \E flight_id \in FlightIds :
        LET r == delete_flight(flights, bookings, cache, flight_id) IN
        /\ flights' = r.flights
        /\ bookings' = r.bookings
        /\ cache' = r.cache
        /\ UNCHANGED <<now, tasks, gen>>

CacheTick ==
    /\ \E t \in Instants : t > now /\ now' = t
    /\ UNCHANGED <<flights, bookings, cache, tasks, gen>>

NextCache ==
    \/ CacheCheckin
    \/ CachePrinted
    \/ CacheUpdateFlight
    \/ CacheCancel
    \/ CacheDeleteFlight
    \/ CacheTick

SpecCache == InitCache /\ [][NextCache]_vars

\* every render of a booking whose image is cached returns the cached
\* bytes and leaves the cache as it is: the renderer itself with either
\* value of cache_only, a check-in answered with success, and the printed
\* pass of a checked-in booking
RendersReturnCached ==
    \A b \in bookings : \A render_ok \in BOOLEAN :
        KeyOf(b) \in DOMAIN cache /\ b.flightId \in DOMAIN flights =>
            LET bytes == Some(cache[KeyOf(b)])
                r == start_checkin(flights, bookings, cache, b.userId,
                                   b.confirmationNumber, render_ok, now)
                g == get_printed_boarding_pass(
                         flights, bookings, cache, b.userId,
                         b.confirmationNumber, render_ok)
            IN /\ \A cache_only \in BOOLEAN :
                      LET img == generate_boarding_pass_image(
                                     flights, bookings, cache,
                                     b.confirmationNumber, cache_only,
                                     render_ok)
                      IN img.ok /\ img.bytes = bytes /\ img.cache = cache
               /\ r.resp.status = 200 =>
                      r.resp.content = bytes /\ r.cache = cache
               /\ b.checkedInAt # None =>
                      /\ g.resp.status = 200
                      /\ g.resp.content = bytes
                      /\ g.cache = cache

\* a step keeps the bytes cached for a booking that is still there after
\* it, on a flight that is still there
CachedWhileBooked ==
    \A k \in DOMAIN cache :
        (k[1] \in DOMAIN flights' /\ \E b \in bookings' : KeyOf(b) = k) =>
            k \in DOMAIN cache' /\ cache'[k] = cache[k]

\* C16: once an image is cached for (flight, confirmation), every later
\* render of the confirmation returns the cached bytes, whatever updates
\* are made to the flight or the booking, until the booking is cancelled
\* or the flight deleted.
C16_CachedArtifactWins ==
    []RendersReturnCached /\ [][CachedWhileBooked]_vars

\* the flight was postponed and the booking checked in again after the
\* image was cached: the cached image shows neither, and it is what the
\* printed pass returns
C16_Witness ==
    \E b \in bookings :
        /\ KeyOf(b) \in DOMAIN cache
        /\ flights[b.flightId].departure = Postponed
        /\ cache[KeyOf(b)].departure = Departure
        /\ cache[KeyOf(b)].checkedInAt # b.checkedInAt
        /\ get_printed_boarding_pass(flights, bookings, cache, b.userId,
                                     b.confirmationNumber, TRUE).resp.content
               = Some(cache[KeyOf(b)])

\* C17 as claimed: delete_flight on a flight with bookings removes the
\* flight, every booking that references it and every cached image of the
\* flight, and leaves the other flights as they are.
C17_DeleteFlightCascade ==
    \A f \in DOMAIN flights :
        (\E b \in bookings : b.flightId = f) =>
            LET r == delete_flight(flights, bookings, cache, f) IN
            /\ f \notin DOMAIN r.flights
            /\ \A b \in r.bookings : b.flightId # f
            /\ \A g \in DOMAIN flights \ {f} :
                   g \in DOMAIN r.flights /\ r.flights[g] = flights[g]
            /\ \A k \in DOMAIN r.cache : k[1] # f

----------------------------------------------------------------------------
(* Properties of the notifications (Spec) *)

\* the check-in requests of the model
CheckinInputs ==
    [op : {"start_checkin", "staff_checkin"}, window_user : UserIds,
     confirmation : CodeSpace \cup {""}, render_ok : BOOLEAN]

\* a check-in up to its image
CheckinDone(i) ==
    checkin(i.op, flights, bookings, cache, CallerOf(i.op, i.window_user),
            i.window_user, i.confirmation, i.render_ok, now)

\* C18: whatever the Notification Relay does with the call (it answers
\* 200, it answers another status, the call fails or times out),
\* create_booking, cancel_booking and the check-ins leave the tables their
\* database writes produced and return the response of those writes, the
\* success response when the writes succeeded.
C18_RelayFailureHarmless ==
    /\ \A i \in CreateInputs :
          Create(i) = create_booking(flights, bookings, i.user, i.flight_id,
                                     i.dep, i.drawn, now)
    /\ \A i \in CancelInputs :
          Cancel(i) = cancel_booking(flights, bookings, cache, i.user,
                                     i.confirmation, now)
    /\ \A i \in CheckinInputs : \A relay \in RelayOutcomes :
          checkin_sent(CheckinDone(i), post(relay)) = CheckinDone(i)

\* a booking, a cancellation and a check-in that succeed although the call
\* to the relay fails
C18_Witness ==
    /\ \E i \in CreateInputs :
          i.relay = "unreachable" /\ Create(i).resp.detail = Booked
    /\ \E i \in CancelInputs :
          /\ i.relay = "unreachable"
          /\ Cancel(i).resp.detail = Canceled
          /\ Cancel(i).bookings # bookings
    /\ \E i \in CheckinInputs :
          /\ checkin_sent(CheckinDone(i), post("unreachable")).resp.status
                 = 200
          /\ CheckinDone(i).bookings # bookings

----------------------------------------------------------------------------
(* src/main.py: cleanup_past_flights, periodic_cleanup_task, on_startup *)

CleanupAgeMinutes == 120

\* where a run of the cleanup may fail: nowhere, in its SELECT, or in its
\* second DELETE (the first one is then committed)
CleanupFaults == {"none", "select", "delete"}

\* a variant with the comparison `dt <= cutoff`
past_ids_at_cutoff(fl, t) ==
    {f \in DOMAIN fl : fl[f].departure <= t - CleanupAgeMinutes}

\* the flights a run takes for past: `dt < cutoff`, dt the stored departure
\* read by parse_datetime (a text without offset is taken as UTC)
past_ids(fl, t) ==
    {f \in DOMAIN fl :
        LET dt == parse_datetime([kind |-> "iso", at |-> fl[f].departure])
        IN dt # None /\ Val(dt) < t - CleanupAgeMinutes}

\* DELETE FROM bookings WHERE flightId IN past_ids, then DELETE FROM
\* flights WHERE id IN past_ids; raised: an exception leaves the function
cleanup_past_flights(fl, bk, t, fault) ==
    LET past == past_ids(fl, t)
        kept == {b \in bk : b.flightId \notin past}
    IN
    IF fault = "select"
    THEN [flights |-> fl, bookings |-> bk, raised |-> TRUE]
    ELSE IF past = {}
         THEN [flights |-> fl, bookings |-> bk, raised |-> FALSE]
    ELSE IF fault = "delete"
         THEN [flights |-> fl, bookings |-> kept, raised |-> TRUE]
    ELSE [flights |-> [f \in DOMAIN fl \ past |-> fl[f]],
          bookings |-> kept, raised |-> FALSE]

----------------------------------------------------------------------------
(* SpecCleanup: the process from its startup on.  `tasks` is the process:  *)
(* phase is "starting" until on_startup returns, then "serving", or        *)
(* "exited" when an exception leaves on_startup (the server then stops);   *)
(* pc is the position of periodic_cleanup_task, logged tells whether its   *)
(* last run ended in the except branch.                                    *)

\* instants around the cutoff of the flights of the model
CleanupInstants ==
    {0, Departure + CleanupAgeMinutes, Departure + CleanupAgeMinutes + 1}

InitCleanup ==
    /\ bookings \in GenTables
    /\ \E later \in {Departure, Postponed}, aware \in BOOLEAN :
          flights =
              [f \in FlightIds |->
                  [seats |-> MaxBookings,
                   booked |-> Cardinality({b \in bookings : b.flightId = f}),
                   departure |-> IF f = "SW1" THEN Departure ELSE later,
                   aware |-> aware]]
    /\ cache = << >>
    /\ now \in CleanupInstants
    /\ tasks = [phase |-> "starting", pc |-> "none", logged |-> FALSE]
    /\ gen = << >>

\* on_startup: `await cleanup_past_flights()` outside any try, then
\* asyncio.create_task(periodic_cleanup_task())
Startup ==
    /\ tasks.phase = "starting"
    /\ \E fault \in CleanupFaults :
          LET r == cleanup_past_flights(flights, bookings, now, fault) IN
          /\ flights' = r.flights
          /\ bookings' = r.bookings
          /\ tasks' = IF r.raised
                      THEN [tasks EXCEPT !.phase = "exited"]
                      ELSE [tasks EXCEPT !.phase = "serving", !.pc = "run"]
    /\ UNCHANGED <<cache, now, gen>>

\* one turn of the loop of periodic_cleanup_task up to its sleep
PeriodicRun ==
    /\ tasks.phase = "serving" /\ tasks.pc = "run"
    /\ \E fault \in CleanupFaults :
          LET r == cleanup_past_flights(flights, bookings, now, fault) IN
          /\ flights' = r.flights
          /\ bookings' = r.bookings
          /\ tasks' = [tasks EXCEPT !.pc = "sleep", !.logged = r.raised]
    /\ UNCHANGED <<cache, now, gen>>

\* a run that does not fail
PeriodicRunCompletes ==
    PeriodicRun /\ ~tasks'.logged

\* asyncio.sleep(20 * 60) returns
PeriodicWake ==
    /\ tasks.phase = "serving" /\ tasks.pc = "sleep"
    /\ tasks' = [tasks EXCEPT !.pc = "run"]
    /\ UNCHANGED <<flights, bookings, cache, now, gen>>

\* a booking request handled while the process serves
CleanupCreateBooking ==
    /\ tasks.phase = "serving"
    /\ \E i \in CreateInputs :
          /\ Cardinality(bookings) < MaxBookings
          /\ flights' = Create(i).flights
          /\ bookings' = Create(i).bookings
    /\ UNCHANGED <<cache, now, tasks, gen>>

CleanupTick ==
    /\ tasks.phase # "exited"
    /\ \E t \in CleanupInstants : t > now /\ now' = t
    /\ UNCHANGED <<flights, bookings, cache, tasks, gen>>

NextCleanup ==
    \/ Startup
    \/ PeriodicRun
    \/ PeriodicWake
    \/ CleanupCreateBooking
    \/ CleanupTick

SpecCleanup == InitCleanup /\ [][NextCleanup]_vars

\* C19 as claimed: a failure of a run of the cleanup, the startup run
\* included, is caught: it never stops the process or its startup, and the
\* periodic task goes on.
C19_CleanupFailureContained ==
    /\ tasks.phase # "exited"
    /\ tasks.phase = "serving" => tasks.pc \in {"run", "sleep"}

\* the periodic task is scheduled whenever it can run, and its runs do not
\* fail for ever
SpecCleanupFair ==
    /\ SpecCleanup
    /\ WF_vars(PeriodicWake)
    /\ WF_vars(PeriodicRun)
    /\ SF_vars(PeriodicRunCompletes)

\* a run of the cleanup, failing or not, leaves every flight that is not
\* past the cutoff and every booking of such a flight as they are
CleanupSpares ==
    \A fault \in CleanupFaults :
        LET r == cleanup_past_flights(flights, bookings, now, fault) IN
        /\ \A f \in DOMAIN flights :
              flights[f].departure >= now - CleanupAgeMinutes =>
                  f \in DOMAIN r.flights /\ r.flights[f] = flights[f]
        /\ \A b \in bookings :
              (b.flightId \in DOMAIN flights
                 /\ flights[b.flightId].departure >= now - CleanupAgeMinutes)
                  => b \in r.bookings
        /\ r.bookings \subseteq bookings
        /\ DOMAIN r.flights \subseteq DOMAIN flights

\* the flight departed more than two hours ago
PastCutoff(f) ==
    f \in DOMAIN flights /\ flights[f].departure + CleanupAgeMinutes < now

\* the flight and every booking that references it are gone
Cleaned(f) ==
    f \notin DOMAIN flights /\ \A b \in bookings : b.flightId # f

----------------------------------------------------------------------------
(* Properties of the seat counters under staff updates (Spec) *)

\* the PUT requests of the model
UpdateInputs ==
    [flight_id : FlightIds, seats : SeatInputs, aware : BOOLEAN,
     both_keys : BOOLEAN]

Update(i) ==
    update_flight(flights, i.flight_id, i.seats, Departure, i.aware,
                  i.both_keys, now)

\* C21 as claimed: update_flight never changes a flight's booked count, it
\* rejects every request whose seats are below the booked count and leaves
\* the record as it is, and seats >= booked holds after every update_flight.
C21_UpdateKeepsLedger ==
    \A i \in UpdateInputs :
        i.flight_id \in DOMAIN flights =>
            LET old == flights[i.flight_id]
                new == Update(i).flights[i.flight_id]
            IN /\ DOMAIN Update(i).flights = DOMAIN flights
               /\ new.booked = old.booked
               /\ i.seats < old.booked =>
                      Update(i).flights = flights
                          /\ Update(i).resp.status # 200
               /\ new.seats >= new.booked

----------------------------------------------------------------------------
(* SpecVerify: verify_seats on rows of any content.  The repair is meant   *)
(* for corrupted data, so the rows are drawn from every (seats, booked)    *)
(* pair of a range around 0.                                               *)

VerifyRows == -VerifyRange..VerifyRange

InitVerify ==
    /\ \E present \in SUBSET FlightIds :
          flights \in [present -> [seats : VerifyRows, booked : VerifyRows,
                                   departure : {Departure}, aware : {TRUE}]]
    /\ bookings = {}
    /\ cache = << >>
    /\ now = 0
    /\ tasks = << >>
    /\ gen = << >>

\* Flights.verify_seats(flight_id)
VerifySeats ==
    /\ \E flight_id \in FlightIds :
          flights' = verify_seats(flights, flight_id).flights
    /\ UNCHANGED <<bookings, cache, now, tasks, gen>>

NextVerify == VerifySeats

SpecVerify == InitVerify /\ [][NextVerify]_vars

\* the row is one the repair leaves alone
ValidRow(seats, booked) == 0 <= booked /\ booked <= seats /\ seats >= 0

\* the greatest of seats, booked and 0, said without computing it
IsMax3(m, seats, booked) ==
    /\ m \in {seats, booked, 0}
    /\ m >= seats /\ m >= booked /\ m >= 0

\* C22: verify_seats leaves seats and booked as they are and reports
\* corrected = false when 0 <= booked <= seats and seats >= 0; otherwise it
\* sets seats to max(seats, booked, 0) and booked to 0 and reports
\* corrected = true.  No other flight is touched.
C22_VerifySeats ==
    \A f \in DOMAIN flights :
        LET seats == flights[f].seats
            booked == flights[f].booked
            r == verify_row(seats, booked)
            v == verify_seats(flights, f)
        IN /\ v.ok
           /\ DOMAIN v.flights = DOMAIN flights
           /\ \A g \in DOMAIN flights \ {f} : v.flights[g] = flights[g]
           /\ v.flights[f].seats = r.seats
           /\ v.flights[f].booked = r.booked
           /\ v.flights[f].departure = flights[f].departure
           /\ ValidRow(seats, booked) =>
                  ~r.corrected /\ r.seats = seats /\ r.booked = booked
           /\ ~ValidRow(seats, booked) =>
                  r.corrected /\ IsMax3(r.seats, seats, booked)
                      /\ r.booked = 0

\* an overbooked row whose repair takes the booked count as the new seats,
\* next to a row with negative seats
C22_Witness ==
    \E f, g \in DOMAIN flights :
        /\ flights[f].seats > 0
        /\ flights[f].booked > flights[f].seats
        /\ verify_seats(flights, f).flights[f].seats = flights[f].booked
        /\ flights[g].seats < 0
        /\ verify_seats(flights, g).flights[g].seats
               = Max2(flights[g].booked, 0)

----------------------------------------------------------------------------
(* Properties of the tables as a whole *)

\* the number of booking rows that reference the flight
BookingsOf(bk, f) == Cardinality({b \in bk : b.flightId = f})

\* C23 as claimed: after any sequence of operations, succeeding or
\* failing, the booked count of every flight is the number of booking rows
\* that reference the flight.
C23_BookedCountsBookings ==
    \A f \in DOMAIN flights : flights[f].booked = BookingsOf(bookings, f)

----------------------------------------------------------------------------
(* SpecStore: the flights and the bookings under the operations that add   *)
(* and remove rows: create_flight, create_booking, cancel_booking,         *)
(* delete_flight and the past-flight cleanup, whose runs may fail          *)

InitStore ==
    /\ flights = << >>
    /\ bookings = {}
    /\ cache = << >>
    /\ now = 0
    /\ tasks = << >>
    /\ gen = << >>

StoreCreateFlight ==
    \E flight_id \in FlightIds, seats \in 1..MaxSeats, aware \in BOOLEAN :
        /\ flights' = create_flight(flights, flight_id, seats, Departure,
                                    aware).flights
        /\ UNCHANGED <<bookings, cache, now, tasks, gen>>

StoreCreateBooking ==
    \E i \in CreateInputs :
        /\ Cardinality(bookings) < MaxBookings
        /\ flights' = Create(i).flights
        /\ bookings' = Create(i).bookings
        /\ UNCHANGED <<cache, now, tasks, gen>>

StoreCancel ==
    \E i \in CancelInputs :
        /\ flights' = Cancel(i).flights
        /\ bookings' = Cancel(i).bookings
        /\ cache' = Cancel(i).cache
        /\ UNCHANGED <<now, tasks, gen>>

StoreDeleteFlight ==
    \E flight_id \in FlightIds :
        LET r == delete_flight(flights, bookings, cache, flight_id) IN
        /\ flights' = r.flights
        /\ bookings' = r.bookings
        /\ cache' = r.cache
        /\ UNCHANGED <<now, tasks, gen>>

StoreCleanup ==
    \E fault \in CleanupFaults :
        LET r == cleanup_past_flights(flights, bookings, now, fault) IN
        /\ flights' = r.flights
        /\ bookings' = r.bookings
        /\ UNCHANGED <<cache, now, tasks, gen>>

StoreTick ==
    /\ \E t \in CleanupInstants : t > now /\ now' = t
    /\ UNCHANGED <<flights, bookings, cache, tasks, gen>>

NextStore ==
    \/ StoreCreateFlight
    \/ StoreCreateBooking
    \/ StoreCancel
    \/ StoreDeleteFlight
    \/ StoreCleanup
    \/ StoreTick

SpecStore == InitStore /\ [][NextStore]_vars

\* every booking row references a flight of the table
NoOrphans(fl, bk) == \A b \in bk : b.flightId \in DOMAIN fl

\* C24: after any sequence of create_booking, cancel_booking, delete_flight
\* and cleanup operations every booking references a flight that exists:
\* it holds in every reachable state and of the tables every operation
\* handled in it leaves, a failing cleanup run included.
C24_NoOrphanedBookings ==
    /\ NoOrphans(flights, bookings)
    /\ \A i \in CreateInputs : NoOrphans(Create(i).flights, Create(i).bookings)
    /\ \A i \in CancelInputs : NoOrphans(Cancel(i).flights, Cancel(i).bookings)
    /\ \A f \in FlightIds :
          LET r == delete_flight(flights, bookings, cache, f) IN
          NoOrphans(r.flights, r.bookings)
    /\ \A fault \in CleanupFaults :
          LET r == cleanup_past_flights(flights, bookings, now, fault) IN
          NoOrphans(r.flights, r.bookings)

\* a flight with a booking that delete_flight removes and, being past the
\* cutoff, the cleanup removes too, each with its bookings
C24_Witness ==
    \E b \in bookings :
        LET r == delete_flight(flights, bookings, cache, b.flightId)
            c == cleanup_past_flights(flights, bookings, now, "none")
        IN /\ b.flightId \notin DOMAIN r.flights
           /\ b \notin r.bookings
           /\ b.flightId \notin DOMAIN c.flights
           /\ b \notin c.bookings
           /\ Cardinality(bookings) = MaxBookings

----------------------------------------------------------------------------
(* SpecBoard: check-in and cancel requests in flight together.             *)
(* start_checkin is suspended at `await request.json()` (checkin.py line   *)
(* 51) and at `await srs_client.send_checkin` (line 141), staff_checkin at *)
(* lines 230 and 320, cancel_booking at booking.py lines 338 and 380; the  *)
(* lines between run without suspension on the one event loop of the one   *)
(* uvicorn process (main.py line 180).                                     *)

BoardOps == {"start_checkin", "staff_checkin", "cancel_booking"}

IdleBoard == [pc |-> "idle", op |-> "", user |-> "", confirmation |-> ""]

InitBoard ==
    /\ bookings \in GenTables
    /\ flights = [f \in FlightIds |->
                     [seats |-> MaxBookings,
                      booked |-> Cardinality({b \in bookings : b.flightId = f}),
                      departure |-> Departure, aware |-> TRUE]]
    /\ cache = << >>
    /\ now \in {0, Departure + DepartedPadMinutes}
    /\ tasks = [t \in TaskIds |-> IdleBoard]
    /\ gen = << >>

\* the request arrives: Session.from_request, then `await request.json()`
BoardReceive(t) ==
    /\ tasks[t].pc = "idle"
    /\ \E op \in BoardOps, user \in UserIds, confirmation \in CodeSpace :
           tasks' = [tasks EXCEPT ![t] = [pc |-> "json", op |-> op,
                                          user |-> user,
                                          confirmation |-> confirmation]]
    /\ UNCHANGED <<flights, bookings, cache, now, gen>>

\* the body has arrived: the handler runs up to its HTTPException or to the
\* `await` of its notification
BoardBody(t) ==
    /\ tasks[t].pc = "json"
    /\ LET q == tasks[t] IN
       IF q.op = "cancel_booking"
       THEN LET r == cancel_booking(flights, bookings, cache, q.user,
                                    q.confirmation, now)
            IN /\ flights' = r.flights
               /\ bookings' = r.bookings
               /\ cache' = r.cache
               /\ tasks' = [tasks EXCEPT ![t] =
                                IF r.resp.detail = Canceled
                                THEN [q EXCEPT !.pc = "srs"]
                                ELSE IdleBoard]
       ELSE \E render_ok \in BOOLEAN :
            LET r == checkin(q.op, flights, bookings, cache,
                             CallerOf(q.op, q.user), q.user,
                             q.confirmation, render_ok, now)
            IN /\ flights' = flights
               /\ bookings' = r.bookings
               /\ cache' = r.cache
               /\ tasks' = [tasks EXCEPT ![t] =
                                IF r.resp.status = 200
                                THEN [q EXCEPT !.pc = "srs"]
                                ELSE IdleBoard]
    /\ UNCHANGED <<now, gen>>

\* the notification has returned or raised: the response is sent
BoardNotified(t) ==
    /\ tasks[t].pc = "srs"
    /\ tasks' = [tasks EXCEPT ![t] = IdleBoard]
    /\ UNCHANGED <<flights, bookings, cache, now, gen>>

NextBoard ==
    \E t \in TaskIds : BoardReceive(t) \/ BoardBody(t) \/ BoardNotified(t)

SpecBoard == InitBoard /\ [][NextBoard]_vars

\* the bookings of a flight that hold a boarding position
Holders(bk, f) ==
    {b \in bk : b.flightId = f /\ b.boardingPosition # << >>}

\* C25: under any interleaving of check-in and cancel requests in flight
\* together, no two bookings of one flight hold the same boarding position
\* as long as fewer than 180 bookings of that flight hold a position
C25_DistinctPositions ==
    \A f \in FlightIds :
        Cardinality(Holders(bookings, f)) < Len(Groups) * PositionsPerGroup
        => \A b1, b2 \in Holders(bookings, f) :
               b1.boardingPosition = b2.boardingPosition => b1 = b2

\* two check-ins of two bookings of one flight wait for their
\* notifications together, and the two bookings hold two positions
C25_Witness ==
    \E t1, t2 \in TaskIds :
        /\ t1 # t2
        /\ tasks[t1].pc = "srs" /\ tasks[t2].pc = "srs"
        /\ tasks[t1].op # "cancel_booking" /\ tasks[t2].op # "cancel_booking"
        /\ tasks[t1].confirmation # tasks[t2].confirmation
        /\ \E b1, b2 \in bookings :
              /\ b1.confirmationNumber = tasks[t1].confirmation
              /\ b2.confirmationNumber = tasks[t2].confirmation
              /\ b1.flightId = b2.flightId
              /\ b1.boardingPosition # << >>
              /\ b2.boardingPosition # << >>
              /\ b1.boardingPosition # b2.boardingPosition

----------------------------------------------------------------------------
(* Properties of the artifacts and of the check-in handlers *)

\* C26 as claimed: after any sequence of check-ins, cancellations, flight
\* deletions and cleanups, every artifact cached under a (flight,
\* confirmation) key belongs to a booking with that confirmation code on
\* that flight
C26_NoArtifactOutlivesBooking ==
    \A k \in DOMAIN cache :
        \E b \in bookings : /\ b.flightId = k[1]
                            /\ b.confirmationNumber = k[2]

\* C27 as claimed: start_checkin assigns a position, stamps the check-in
\* time or returns an artifact only for the owner of the booking; the
\* request of any other session user changes nothing and returns no
\* artifact
C27_OwnerOnlyCheckin ==
    \A user \in UserIds, confirmation \in CodeSpace, render_ok \in BOOLEAN :
        \A b \in bookings :
            (b.confirmationNumber = confirmation /\ b.userId # user)
            => LET r == start_checkin(flights, bookings, cache, user,
                                      confirmation, render_ok, now)
               IN /\ r.bookings = bookings
                  /\ r.cache = cache
                  /\ r.resp.content = None

----------------------------------------------------------------------------
(* SpecBarcode: draw_barcode (src/core/flights/boarding_pass.py).          *)
(* A 32-bit word is kept as two 16-bit halves, so that no product of the   *)
(* arithmetic below leaves the range of the checker's integers.            *)

NumChars == 2
CodeLength == 6
BarcodeWidth == 210
BarStep == 4
HashFactor == 31
Half == 65536

\* seed * 1664525 + 1013904223: the multiplier and the increment in halves
\* (1664525 = 25 * 65536 + 26125, 1013904223 = 15470 * 65536 + 62303)
MulHi == 25
MulLo == 26125
IncHi == 15470
IncLo == 62303

\* the characters _generate_confirmation draws from, and ord() of them
CodeChars == <<"A", "0", "Z", "9">>
Ord(ch) ==
    CASE ch = "A" -> 65
      [] ch = "0" -> 48
      [] ch = "Z" -> 90
      [] ch = "9" -> 57

BarcodeCodes == [1..CodeLength -> {CodeChars[i] : i \in 1..NumChars}]

\* h = (h << 5) - h + ord(ch); h &= 0xFFFFFFFF
hash_step(h, ch) ==
    LET lo == (HashFactor * h.lo) + Ord(ch)
    IN [hi |-> ((HashFactor * h.hi) + (lo \div Half)) % Half,
        lo |-> lo % Half]

RECURSIVE hash_from(_, _, _)
hash_from(h, s, i) ==
    IF i > Len(s) THEN h ELSE hash_from(hash_step(h, s[i]), s, i + 1)

\* abs() of the masked value is the value
hash_code(s) == hash_from([hi |-> 0, lo |-> 0], s, 1)

\* a variant whose increment is even (1013904222)
lcg_even_increment(seed) ==
    LET lo == (seed.lo * MulLo) + (IncLo - 1)
    IN [hi |-> (((seed.hi * MulLo) % Half) + (seed.lo * MulHi) + IncHi
                  + (lo \div Half)) % Half,
        lo |-> lo % Half]

\* seed = (seed * 1664525 + 1013904223) % 4294967296
lcg(seed) ==
    LET lo == (seed.lo * MulLo) + IncLo
    IN [hi |-> (((seed.hi * MulLo) % Half) + (seed.lo * MulHi) + IncHi
                  + (lo \div Half)) % Half,
        lo |-> lo % Half]

\* return seed % 2
bit_of(seed) == seed.lo % 2

InitBarcode ==
    /\ flights = << >>
    /\ bookings = {}
    /\ cache = << >>
    /\ now = 0
    /\ tasks = << >>
    /\ \E code \in BarcodeCodes :
           gen = [code |-> code, hash |-> hash_code(code),
                  seed |-> hash_code(code), px |-> 0, bars |-> << >>]

\* one round of `for px in range(0, width, 4)`: random_bit() and the bar
DrawBar ==
    /\ gen.px < BarcodeWidth
    /\ gen' = [gen EXCEPT !.seed = lcg(gen.seed),
                          !.px = gen.px + BarStep,
                          !.bars = Append(gen.bars, bit_of(lcg(gen.seed)))]
    /\ UNCHANGED <<flights, bookings, cache, now, tasks>>

NextBarcode == DrawBar

SpecBarcode == InitBarcode /\ [][NextBarcode]_vars

\* the bars that alternate, beginning opposite to the parity p
Alternating(p, n) == [k \in 1..n |-> (p + k) % 2]

\* C30: for every confirmation code the bits that decide the bars
\* alternate strictly between 0 and 1, so the bars are determined by the
\* parity of the code's hash alone: two codes with hashes of equal parity
\* get the same bars
C30_BarsAlternate ==
    /\ \A k \in 1..(Len(gen.bars) - 1) : gen.bars[k] # gen.bars[k + 1]
    /\ gen.bars = Alternating(bit_of(gen.hash), Len(gen.bars))

\* a barcode drawn to its last bar for a code with an even hash: it begins
\* with a bar
C30_Witness ==
    /\ gen.px >= BarcodeWidth
    /\ Len(gen.bars) > BarcodeWidth \div BarStep
    /\ bit_of(gen.hash) = 0
    /\ gen.bars[1] = 1
    /\ gen.bars[Len(gen.bars)] = 1

============================================================================
